---- MODULE Spec2Model ----
(***************************************************************************)
(* A model of the pesaprime browser client: the ApiService of              *)
(* services/api.ts (token storage, request composition, response and error *)
(* handling, retry) and the route guards of App.tsx.                       *)
(*                                                                         *)
(* Text is modelled as a sequence of words ("Bearer t" is <<"Bearer","t">>)*)
(* so that String.includes, template literals and Array.join can be        *)
(* computed; JavaScript values are tagged records.                         *)
(***************************************************************************)
EXTENDS Integers, Sequences, FiniteSets, TLC

VARIABLES
  token,               \* localStorage['authToken'] as getItem returns it
  retryCount,          \* ApiService.retryCount
  unauthorizedEvents,  \* number of 'unauthorized' window events dispatched
  call,                \* the ApiService call in progress, or the last one made
  appVersion,          \* which route table is mounted
  path,                \* current location, as a sequence of path segments
  loading,             \* useAuth().loading
  isAuthenticated,     \* useAuth().isAuthenticated
  rendered,            \* the element the matched route evaluates to
  redirects,           \* <Navigate> elements followed since the last navigation
                       \* or change of authentication state
  calls                \* the request() calls issued concurrently, by slot

apiVars == <<token, retryCount, unauthorizedEvents, call>>
routeVars == <<appVersion, path, loading, isAuthenticated, rendered, redirects>>
vars == <<token, retryCount, unauthorizedEvents, call,
          appVersion, path, loading, isAuthenticated, rendered, redirects,
          calls>>

(***************************************************************************)
(* Bounds                                                                  *)
(***************************************************************************)
MaxEvents == 2
MaxRedirects == 3
MaxCalls == 2

(***************************************************************************)
(* JavaScript values                                                       *)
(***************************************************************************)
Undefined == [t |-> "undefined"]
JNull == [t |-> "null"]
JStr(s) == [t |-> "str", s |-> s]
JNum(n) == [t |-> "num", n |-> n]
JArr(items) == [t |-> "arr", items |-> items]
\* an object is its sequence of <<key, value>> entries, in insertion order
JObj(entries) == [t |-> "obj", entries |-> entries]

typeof(v) ==
  CASE v.t = "undefined" -> "undefined"
    [] v.t = "str" -> "string"
    [] v.t = "num" -> "number"
    [] OTHER -> "object"

isArray(v) == v.t = "arr"

Truthy(v) ==
  CASE v.t = "undefined" -> FALSE
    [] v.t = "null" -> FALSE
    [] v.t = "str" -> v.s # <<>>
    [] v.t = "num" -> v.n # 0
    [] OTHER -> TRUE

\* v[key] for a value v that is neither null nor undefined
Prop(v, key) ==
  IF v.t = "obj" /\ \E i \in 1..Len(v.entries) : v.entries[i][1] = key
  THEN v.entries[CHOOSE i \in 1..Len(v.entries) : v.entries[i][1] = key][2]
  ELSE Undefined

ObjectKeys(v) ==
  IF v.t = "obj" THEN [i \in 1..Len(v.entries) |-> v.entries[i][1]] ELSE <<>>

RECURSIVE JoinWords(_, _)
\* texts joined with a separator between them
JoinWords(texts, sep) ==
  IF texts = <<>> THEN <<>>
  ELSE IF Len(texts) = 1 THEN texts[1]
  ELSE texts[1] \o sep \o JoinWords(Tail(texts), sep)

RECURSIVE ToStr(_)
\* String(v), as template literals, Array.join and new Error(v) apply it
ToStr(v) ==
  CASE v.t = "undefined" -> <<"undefined">>
    [] v.t = "null" -> <<"null">>
    [] v.t = "str" -> v.s
    [] v.t = "num" -> <<ToString(v.n)>>
    [] v.t = "arr" -> JoinWords([i \in 1..Len(v.items) |->
                                   IF v.items[i].t \in {"null", "undefined"}
                                   THEN <<>> ELSE ToStr(v.items[i])], <<",">>)
    [] OTHER -> <<"[object", "Object]">>

\* Array.prototype.join(sep)
ArrayJoin(v, sep) ==
  JoinWords([i \in 1..Len(v.items) |->
               IF v.items[i].t \in {"null", "undefined"}
               THEN <<>> ELSE ToStr(v.items[i])], sep)

RECURSIVE JSONstringify(_)
JSONstringify(v) ==
  CASE v.t = "null" -> <<"null">>
    [] v.t = "str" -> <<"\"">> \o v.s \o <<"\"">>
    [] v.t = "num" -> <<ToString(v.n)>>
    [] v.t = "arr" -> <<"[">> \o JoinWords([i \in 1..Len(v.items) |->
                                   JSONstringify(v.items[i])], <<",">>) \o <<"]">>
    [] v.t = "obj" -> <<"{">> \o JoinWords([i \in 1..Len(v.entries) |->
                                   <<"\"", v.entries[i][1], "\"", ":">>
                                   \o JSONstringify(v.entries[i][2])], <<",">>) \o <<"}">>
    [] OTHER -> <<>>

\* String.prototype.includes, at the granularity of words
includes(text, word) == \E i \in 1..Len(text) : text[i] = word

(***************************************************************************)
(* Errors                                                                  *)
(***************************************************************************)
NoStatus == 0
NoError == [name |-> "none", message |-> <<>>, status |-> NoStatus, detail |-> <<>>]
\* new Error(message); status and detail are the fields handleErrorResponse adds
NewError(message) ==
  [name |-> "Error", message |-> message, status |-> NoStatus, detail |-> <<>>]
\* what fetch rejects with when no response was produced
FetchTypeError ==
  [name |-> "TypeError", message |-> <<"Failed", "to", "fetch">>,
   status |-> NoStatus, detail |-> <<>>]
\* reading a property of null
NullTypeError ==
  [name |-> "TypeError",
   message |-> <<"Cannot", "read", "properties", "of", "null">>,
   status |-> NoStatus, detail |-> <<>>]

Msg401 == <<"Authentication", "failed.", "Please", "login", "again.">>
Msg403 == <<"You", "do", "not", "have", "permission", "to", "perform", "this", "action.">>
Msg404 == <<"Resource", "not", "found.">>
Msg429 == <<"Too", "many", "requests.", "Please", "try", "again", "later.">>
MsgInvalidJSON == <<"Invalid", "JSON", "response", "from", "server">>
MsgRequestFailed == <<"Request", "failed">>
MsgValidationFailed == <<"Validation", "failed">>
MsgNotImplemented == <<"Method", "not", "implemented.">>
MsgHttpError(status) == <<"HTTP", "error!", "status:", ToString(status)>>
MethodNotImplemented == NewError(MsgNotImplemented)

(***************************************************************************)
(* Responses the backend can give                                          *)
(***************************************************************************)
\* a body is text that is not JSON (possibly empty), a JSON document, or a
\* stream that fails when read
TextBody(text) == [kind |-> "text", text |-> text, val |-> Undefined]
JsonBody(v) == [kind |-> "json", text |-> <<>>, val |-> v]
UnreadableBody == [kind |-> "unreadable", text |-> <<>>, val |-> Undefined]
\* no response, hence no body
NoBody == [kind |-> "none", text |-> <<>>, val |-> Undefined]

Tokens == {<<"t1">>, <<"t2">>}

Bodies ==
  { TextBody(<<>>),
    TextBody(<<"Bad", "Gateway">>),
    TextBody(<<"Network", "unreachable">>),
    TextBody(<<"Network", "Authentication", "Required">>),
    UnreadableBody,
    JsonBody(JNull),
    JsonBody(JStr(<<"oops">>)),
    JsonBody(JNum(7)),
    JsonBody(JArr(<<JStr(<<"first">>), JStr(<<"second">>)>>)),
    JsonBody(JObj(<<>>)),
    JsonBody(JObj(<< <<"detail", JStr(<<"Invalid", "credentials">>)>> >>)),
    JsonBody(JObj(<< <<"detail", JStr(<<"could", "not", "fetch", "rates">>)>> >>)),
    JsonBody(JObj(<< <<"detail", JStr(<<>>)>>, <<"message", JStr(<<"Try", "later">>)>> >>)),
    JsonBody(JObj(<< <<"error", JStr(<<"Network", "busy">>)>> >>)),
    JsonBody(JObj(<< <<"message", JStr(<<"Try", "later">>)>>,
                     <<"detail", JStr(<<"Invalid", "credentials">>)>> >>)),
    JsonBody(JObj(<< <<"error", JStr(<<"Declined">>)>>,
                     <<"message", JStr(<<"Insufficient", "funds">>)>> >>)),
    JsonBody(JObj(<< <<"email", JArr(<<JStr(<<"taken">>)>>)>>,
                     <<"phone_number", JStr(<<"invalid">>)>> >>)),
    JsonBody(JObj(<< <<"access_token", JStr(<<"t1">>)>> >>)),
    JsonBody(JObj(<< <<"access_token", JStr(<<"t2">>)>> >>)),
    JsonBody(JObj(<< <<"access_token", JStr(<<>>)>> >>)),
    JsonBody(JObj(<< <<"balance", JNum(5)>> >>)) }

Statuses == {200, 204, 400, 401, 403, 404, 429, 500}

Responses == [status : Statuses, body : Bodies]

\* Response.ok
ok(response) == response.status >= 200 /\ response.status <= 299

\* what response.text() resolves with (the body must be readable)
ResponseText(body) ==
  IF body.kind = "json" THEN JSONstringify(body.val) ELSE body.text

(***************************************************************************)
(* ApiService: token storage and headers                                   *)
(***************************************************************************)
NoHeader == <<>>
Headers(contentType, authorization) ==
  [ContentType |-> contentType, Authorization |-> authorization]
NoHeaders == Headers(NoHeader, NoHeader)

\* localStorage.getItem('authToken'): the stored string, or null
getToken(tok) == tok
\* the storage after localStorage.setItem('authToken', value)
setToken(value) == JStr(ToStr(value))
\* the storage after localStorage.removeItem('authToken')
removeToken == JNull

isAuthenticated_api(tok) == Truthy(getToken(tok))

getAuthHeaders(tok) ==
  Headers(<<"application/json">>,
          IF Truthy(getToken(tok)) THEN <<"Bearer">> \o ToStr(getToken(tok))
          ELSE NoHeader)

\* the headers uploadProfileImage passes to fetch
uploadHeaders(tok) == Headers(NoHeader, <<"Bearer">> \o ToStr(getToken(tok)))

(***************************************************************************)
(* ApiService: response and error handling                                 *)
(***************************************************************************)
Throw(error, tok, dispatched) ==
  [threw |-> TRUE, error |-> error, data |-> Undefined,
   token |-> tok, dispatched |-> dispatched]
Return(data, tok) ==
  [threw |-> FALSE, error |-> NoError, data |-> data,
   token |-> tok, dispatched |-> 0]

FieldError(key, value) ==
  IF isArray(value) THEN <<key, ":">> \o ArrayJoin(value, <<",">>)
  ELSE IF typeof(value) = "string" THEN <<key, ":">> \o value.s
  ELSE <<key, ":">> \o JSONstringify(value)

\* ParsedErrorMessage, had 'message' been looked at before 'detail'
ParsedErrorMessage_MessageFirst(errorData) ==
  LET keys == ObjectKeys(errorData)
      fieldErrors == [i \in 1..Len(keys) |->
                        FieldError(keys[i], Prop(errorData, keys[i]))]
  IN IF typeof(errorData) # "object" THEN <<MsgRequestFailed, <<>>>>
     ELSE IF Truthy(Prop(errorData, "message"))
       THEN <<ToStr(Prop(errorData, "message")), <<>>>>
     ELSE IF Truthy(Prop(errorData, "detail"))
       THEN <<ToStr(Prop(errorData, "detail")), <<>>>>
     ELSE IF Truthy(Prop(errorData, "error"))
       THEN <<ToStr(Prop(errorData, "error")), <<>>>>
     ELSE IF isArray(errorData) THEN <<ArrayJoin(errorData, <<",">>), <<>>>>
     ELSE IF Len(fieldErrors) > 0
       THEN <<MsgValidationFailed, JoinWords(fieldErrors, <<";">>)>>
     ELSE <<MsgRequestFailed, <<>>>>

\* the <<errorMessage, errorDetail>> chosen from a parsed, non-null errorData
ParsedErrorMessage(errorData) ==
  LET keys == ObjectKeys(errorData)
      fieldErrors == [i \in 1..Len(keys) |->
                        FieldError(keys[i], Prop(errorData, keys[i]))]
  IN IF typeof(errorData) # "object" THEN <<MsgRequestFailed, <<>>>>
     ELSE IF Truthy(Prop(errorData, "detail"))
       THEN <<ToStr(Prop(errorData, "detail")), <<>>>>
     ELSE IF Truthy(Prop(errorData, "message"))
       THEN <<ToStr(Prop(errorData, "message")), <<>>>>
     ELSE IF Truthy(Prop(errorData, "error"))
       THEN <<ToStr(Prop(errorData, "error")), <<>>>>
     ELSE IF isArray(errorData) THEN <<ArrayJoin(errorData, <<",">>), <<>>>>
     ELSE IF Len(fieldErrors) > 0
       THEN <<MsgValidationFailed, JoinWords(fieldErrors, <<";">>)>>
     ELSE <<MsgRequestFailed, <<>>>>

\* handleErrorResponse, had it thrown only inside "if (errorText)"
handleErrorResponse_EmptyReturns(response) ==
  LET body == response.body
      errorText == ResponseText(body)
      picked ==
        CASE body.kind = "unreadable" -> <<MsgHttpError(response.status), <<>>>>
          [] errorText = <<>> -> <<MsgHttpError(response.status), <<>>>>
          [] body.kind = "text" \/ body.val.t = "null" -> <<errorText, <<>>>>
          [] OTHER -> ParsedErrorMessage(body.val)
  IN [threw |-> body.kind # "unreadable" /\ errorText # <<>>,
      error |-> [name |-> "Error", message |-> picked[1],
                 status |-> response.status, detail |-> picked[2]]]

\* handleErrorResponse: [threw, error]; threw = FALSE would be a normal return
handleErrorResponse(response) ==
  LET body == response.body
      errorText == ResponseText(body)
      picked ==
        CASE body.kind = "unreadable" -> <<MsgHttpError(response.status), <<>>>>
          [] errorText = <<>> -> <<MsgHttpError(response.status), <<>>>>
          \* JSON.parse throws, and so does reading .detail of null: inner catch
          [] body.kind = "text" \/ body.val.t = "null" -> <<errorText, <<>>>>
          [] OTHER -> ParsedErrorMessage(body.val)
  IN [threw |-> TRUE,
      error |-> [name |-> "Error", message |-> picked[1],
                 status |-> response.status, detail |-> picked[2]]]

\* handleBody, had it not made the 204 exception (as an earlier version of
\* the service did not)
handleBody_No204(response, tok) ==
  LET e == IF ~ok(response) THEN handleErrorResponse(response)
           ELSE [threw |-> FALSE, error |-> NoError]
  IN IF e.threw THEN Throw(e.error, tok, 0)
     ELSE IF ok(response) /\ response.body.kind = "json"
       THEN Return(response.body.val, tok)
     ELSE Throw(NewError(MsgInvalidJSON), tok, 0)

\* handleResponse from "if (!response.ok)" on
handleBody(response, tok) ==
  LET e == IF ~ok(response) THEN handleErrorResponse(response)
           ELSE [threw |-> FALSE, error |-> NoError]
  IN IF e.threw THEN Throw(e.error, tok, 0)
     \* response.json() fails on a body that is not JSON or was already read
     ELSE IF ok(response) /\ response.body.kind = "json"
       THEN Return(response.body.val, tok)
     ELSE IF response.status = 204 THEN Return(JObj(<<>>), tok)
     ELSE Throw(NewError(MsgInvalidJSON), tok, 0)

\* handleResponse, had the 401 branch not called removeToken
handleResponse_401KeepsToken(response, tok) ==
  IF response.status = 401 THEN Throw(NewError(Msg401), tok, 1)
  ELSE IF response.status = 403 THEN Throw(NewError(Msg403), tok, 0)
  ELSE IF response.status = 404 THEN Throw(NewError(Msg404), tok, 0)
  ELSE IF response.status = 429 THEN Throw(NewError(Msg429), tok, 0)
  ELSE handleBody(response, tok)

\* handleResponse, had 403 been handled in the 401 branch
handleResponse_403As401(response, tok) ==
  IF response.status = 401 THEN Throw(NewError(Msg401), removeToken, 1)
  ELSE IF response.status = 403 THEN Throw(NewError(Msg403), removeToken, 1)
  ELSE IF response.status = 404 THEN Throw(NewError(Msg404), tok, 0)
  ELSE IF response.status = 429 THEN Throw(NewError(Msg429), tok, 0)
  ELSE handleBody(response, tok)

\* handleResponse with tok in storage: what it throws or returns, the storage
\* afterwards and the number of 'unauthorized' events it dispatched
handleResponse(response, tok) ==
  IF response.status = 401 THEN Throw(NewError(Msg401), removeToken, 1)
  ELSE IF response.status = 403 THEN Throw(NewError(Msg403), tok, 0)
  ELSE IF response.status = 404 THEN Throw(NewError(Msg404), tok, 0)
  ELSE IF response.status = 429 THEN Throw(NewError(Msg429), tok, 0)
  ELSE handleBody(response, tok)

(***************************************************************************)
(* ApiService: request and retry                                           *)
(***************************************************************************)
maxRetries == 3

isNetworkError(error) ==
  \/ error.name = "TypeError"
  \/ includes(error.message, "Network")
  \/ includes(error.message, "fetch")

\* requestCatch, had the retry limit been tested with <=
requestCatch_OffByOne(error, rc) ==
  IF rc <= maxRetries /\ isNetworkError(error)
  THEN [retry |-> TRUE, retryCount |-> rc + 1, delayMs |-> 1000 * (rc + 1)]
  ELSE [retry |-> FALSE, retryCount |-> 0, delayMs |-> 0]

\* the catch block of request(), entered with retryCount = rc
requestCatch(error, rc) ==
  IF rc < maxRetries /\ isNetworkError(error)
  THEN [retry |-> TRUE, retryCount |-> rc + 1, delayMs |-> 1000 * (rc + 1)]
  ELSE [retry |-> FALSE, retryCount |-> 0, delayMs |-> 0]

\* authResult, had the token not been stored (as register of an earlier
\* version of the service did)
authResult_NoStore(data, tok) ==
  IF data.t \in {"null", "undefined"} THEN Throw(NullTypeError, tok, 0)
  ELSE Return(data, tok)

\* login and register after request() resolved with data: the access token
\* is stored when truthy; data = null makes data.access_token throw
authResult(data, tok) ==
  IF data.t \in {"null", "undefined"} THEN Throw(NullTypeError, tok, 0)
  ELSE IF Truthy(Prop(data, "access_token"))
    THEN Return(data, setToken(Prop(data, "access_token")))
  ELSE Return(data, tok)

\* the methods that go through request()
RequestOps == {"getWalletBalance", "depositFunds", "login", "register"}
AuthOps == {"login", "register"}

\* A call: op is the method called; pc is where it stands (fetching: a
\* request is with the network; delaying: waiting before a retry; done:
\* settled). headers are those of the request last composed and tokSeen the
\* token read when composing it; tokBefore is the token stored when the
\* method was called. fetches counts the requests sent, answered the
\* responses received, lastStatus is the status of the response the last
\* fetch produced (NoStatus when it produced none), error the error last
\* thrown, outcome and data how the call settled. delayMs is the wait before
\* the retry last decided and prevDelayMs the wait before the retry that
\* preceded it in this call (0: none). lastBody is the body of the response
\* the last fetch produced. handled is the value given to
\* ApiErrorHandler.handle after the call rejected and reported the text it
\* returned (<<>>: not called).
IdleCall ==
  [op |-> "none", pc |-> "idle", headers |-> NoHeaders,
   tokSeen |-> JNull, tokBefore |-> JNull,
   fetches |-> 0, answered |-> 0, lastStatus |-> NoStatus, delayMs |-> 0,
   prevDelayMs |-> 0, lastBody |-> NoBody,
   handled |-> NoError, reported |-> <<>>,
   outcome |-> "none", error |-> NoError, data |-> Undefined]

\* a call that ended: resolved with data or rejected with error
Settled(c, r) ==
  [c EXCEPT !.pc = "done",
            !.outcome = IF r.threw THEN "rejected" ELSE "resolved",
            !.error = r.error, !.data = r.data]

\* request(endpoint, options) up to the await of fetch: headers are composed
\* from the token stored now, and the request is sent
Compose(c, tok) ==
  [c EXCEPT !.pc = "fetching", !.headers = getAuthHeaders(tok),
            !.tokSeen = getToken(tok), !.fetches = c.fetches + 1]

\* a public method that delegates to request() is called
Request(op) ==
  /\ call.pc \in {"idle", "done"}
  /\ call' = Compose([IdleCall EXCEPT !.op = op, !.tokBefore = token], token)
  /\ UNCHANGED <<token, retryCount, unauthorizedEvents>>
  /\ UNCHANGED <<routeVars, calls>>

UploadProfileImage ==
  /\ call.pc \in {"idle", "done"}
  /\ call' = [IdleCall EXCEPT !.op = "uploadProfileImage", !.tokBefore = token,
                              !.pc = "fetching", !.headers = uploadHeaders(token),
                              !.tokSeen = getToken(token), !.fetches = 1]
  /\ UNCHANGED <<token, retryCount, unauthorizedEvents>>
  /\ UNCHANGED <<routeVars, calls>>

\* logout() of services/api.ts throws and does nothing else
logout(tok) == Throw(MethodNotImplemented, tok, 0)

Logout ==
  /\ call.pc \in {"idle", "done"}
  /\ LET r == logout(token)
     IN /\ call' = Settled([IdleCall EXCEPT !.op = "logout", !.tokBefore = token], r)
        /\ token' = r.token
  /\ UNCHANGED <<retryCount, unauthorizedEvents>>
  /\ UNCHANGED <<routeVars, calls>>

\* the call continues after its fetch settled with outcome r of the try block
AfterTry(r, answered, status, body) ==
  LET c == [call EXCEPT !.answered = call.answered + answered,
                        !.lastStatus = status, !.lastBody = body]
      caught == requestCatch(r.error, retryCount)
      a == authResult(r.data, r.token)
  IN /\ unauthorizedEvents' = unauthorizedEvents + r.dispatched
     /\ IF call.op = "uploadProfileImage"
        THEN /\ call' = Settled(c, r)
             /\ token' = r.token
             /\ UNCHANGED retryCount
        ELSE IF r.threw
        THEN /\ token' = r.token
             /\ retryCount' = caught.retryCount
             /\ call' = IF caught.retry
                        THEN [c EXCEPT !.pc = "delaying", !.delayMs = caught.delayMs,
                                       !.prevDelayMs = call.delayMs,
                                       !.error = r.error]
                        ELSE Settled(c, r)
        ELSE IF call.op \in AuthOps
        THEN /\ call' = Settled(c, a)
             /\ token' = a.token
             /\ UNCHANGED retryCount
        ELSE /\ call' = Settled(c, r)
             /\ token' = r.token
             /\ UNCHANGED retryCount

\* fetch rejects: no response was produced
FetchFails ==
  /\ call.pc = "fetching"
  /\ AfterTry(Throw(FetchTypeError, token, 0), 0, NoStatus, NoBody)
  /\ UNCHANGED <<routeVars, calls>>

\* fetch resolves with a response, which handleResponse then processes
FetchResponds ==
  /\ call.pc = "fetching"
  /\ \E response \in Responses :
       /\ response.status = 401 => unauthorizedEvents < MaxEvents
       /\ AfterTry(handleResponse(response, token), 1, response.status, response.body)
  /\ UNCHANGED <<routeVars, calls>>

\* the delay before a retry elapses and request() calls itself
DelayElapses ==
  /\ call.pc = "delaying"
  /\ call' = Compose(call, token)
  /\ UNCHANGED <<token, retryCount, unauthorizedEvents>>
  /\ UNCHANGED <<routeVars, calls>>

(***************************************************************************)
(* ApiService: calls issued concurrently on the shared instance            *)
(***************************************************************************)
\* Each slot holds one call to a method that goes through request(). The
\* code that runs between two awaits is one step: JavaScript runs it to
\* completion before any other callback.
Slots == 1..MaxCalls
IdleSlot == [op |-> "none", pc |-> "idle", outcome |-> "none"]
IdleSlots == [s \in Slots |-> IdleSlot]

ConcRequest(s) ==
  /\ calls[s].pc \in {"idle", "done"}
  /\ \E op \in RequestOps :
       calls' = [calls EXCEPT ![s] = [op |-> op, pc |-> "fetching", outcome |-> "none"]]
  /\ UNCHANGED <<token, retryCount, unauthorizedEvents, call>>
  /\ UNCHANGED routeVars

\* the call in slot s continues after its fetch settled with outcome r
ConcAfterTry(s, r) ==
  LET caught == requestCatch(r.error, retryCount)
      a == authResult(r.data, r.token)
      rejected == [calls[s] EXCEPT !.pc = "done", !.outcome = "rejected"]
      resolved == [calls[s] EXCEPT !.pc = "done", !.outcome = "resolved"]
  IN /\ unauthorizedEvents' = unauthorizedEvents + r.dispatched
     /\ IF r.threw
        THEN /\ token' = r.token
             /\ retryCount' = caught.retryCount
             /\ calls' = [calls EXCEPT ![s] =
                            IF caught.retry
                            THEN [calls[s] EXCEPT !.pc = "delaying"]
                            ELSE rejected]
        ELSE IF calls[s].op \in AuthOps
        THEN /\ token' = a.token
             /\ calls' = [calls EXCEPT ![s] = IF a.threw THEN rejected ELSE resolved]
             /\ UNCHANGED retryCount
        ELSE /\ token' = r.token
             /\ calls' = [calls EXCEPT ![s] = resolved]
             /\ UNCHANGED retryCount

ConcFetchFails(s) ==
  /\ calls[s].pc = "fetching"
  /\ ConcAfterTry(s, Throw(FetchTypeError, token, 0))
  /\ UNCHANGED call
  /\ UNCHANGED routeVars

ConcFetchResponds(s) ==
  /\ calls[s].pc = "fetching"
  /\ \E response \in Responses :
       /\ response.status = 401 => unauthorizedEvents < MaxEvents
       /\ ConcAfterTry(s, handleResponse(response, token))
  /\ UNCHANGED call
  /\ UNCHANGED routeVars

ConcDelayElapses(s) ==
  /\ calls[s].pc = "delaying"
  /\ calls' = [calls EXCEPT ![s] = [calls[s] EXCEPT !.pc = "fetching"]]
  /\ UNCHANGED <<token, retryCount, unauthorizedEvents, call>>
  /\ UNCHANGED routeVars

(***************************************************************************)
(* ApiErrorHandler                                                         *)
(***************************************************************************)
MsgNetworkError ==
  <<"Network", "error.", "Please", "check", "your", "internet", "connection.">>
MsgSessionExpired ==
  <<"Your", "session", "has", "expired.", "Please", "login", "again.">>
MsgServerError == <<"Server", "error.", "Please", "try", "again", "later.">>
MsgUnexpected ==
  <<"An", "unexpected", "error", "occurred.", "Please", "try", "again.">>

\* error instanceof Error (TypeError is a subclass of Error)
instanceofError(value) ==
  "name" \in DOMAIN value /\ value.name \in {"Error", "TypeError"}

\* ApiErrorHandler.handle, had the authentication test come first
handle_AuthenticationFirst(error) ==
  IF instanceofError(error)
  THEN IF includes(error.message, "Authentication") \/ includes(error.message, "401")
         THEN MsgSessionExpired
       ELSE IF includes(error.message, "Network") \/ includes(error.message, "fetch")
         THEN MsgNetworkError
       ELSE IF includes(error.message, "500") THEN MsgServerError
       ELSE error.message
  ELSE MsgUnexpected

\* ApiErrorHandler.handle(error)
handle(error) ==
  IF instanceofError(error)
  THEN IF includes(error.message, "Network") \/ includes(error.message, "fetch")
         THEN MsgNetworkError
       ELSE IF includes(error.message, "Authentication") \/ includes(error.message, "401")
         THEN MsgSessionExpired
       ELSE IF includes(error.message, "500") THEN MsgServerError
       ELSE error.message
  ELSE MsgUnexpected

\* values other than Error instances that a caller's catch block can hold
NonErrors ==
  { Undefined,
    JStr(<<"Network", "down">>),
    JObj(<< <<"message", JStr(<<"Authentication", "required">>)>> >>) }

\* the caller of a rejected call, or of code that threw something else, gives
\* what it caught to ApiErrorHandler.handle
HandleError ==
  /\ call.pc = "done"
  /\ call.outcome = "rejected"
  /\ call.reported = <<>>
  /\ \E caught \in {call.error} \cup NonErrors :
       call' = [call EXCEPT !.handled = caught, !.reported = handle(caught)]
  /\ UNCHANGED <<token, retryCount, unauthorizedEvents>>
  /\ UNCHANGED <<routeVars, calls>>

(***************************************************************************)
(* App: route guards and route tables                                      *)
(***************************************************************************)
\* what a route element evaluates to
Spinner == [kind |-> "spinner", page |-> "", to |-> <<>>]
Page(name) == [kind |-> "page", page |-> name, to |-> <<>>]
Navigate(to) == [kind |-> "navigate", page |-> "", to |-> to]

RootPath == <<>>
HomePath == <<"home">>

\* ProtectedRoute, had it not looked at isAuthenticated
ProtectedRoute_IgnoresAuth(children, auth, busy) ==
  IF busy THEN Spinner ELSE children

ProtectedRoute(children, auth, busy) ==
  IF busy THEN Spinner
  ELSE IF auth THEN children ELSE Navigate(RootPath)

\* PublicRoute, had its test of isAuthenticated been inverted
PublicRoute_Inverted(children, auth, busy) ==
  IF busy THEN Spinner
  ELSE IF auth THEN children ELSE Navigate(HomePath)

\* PublicRoute, had it not looked at loading
PublicRoute_IgnoresLoading(children, auth, busy) ==
  IF ~auth THEN children ELSE Navigate(HomePath)

PublicRoute(children, auth, busy) ==
  IF busy THEN Spinner
  ELSE IF ~auth THEN children ELSE Navigate(HomePath)

\* a route: its path pattern (segments, then an optional parameter), the
\* guard wrapped around its element, and the page inside
Route(segments, optional, guard, page) ==
  [segments |-> segments, optional |-> optional, guard |-> guard, page |-> page]

ProtectedPagesCommon ==
  << Route(<<"home">>, FALSE, "ProtectedRoute", "Home"),
     Route(<<"wallet">>, FALSE, "ProtectedRoute", "Wallet"),
     Route(<<"assets">>, FALSE, "ProtectedRoute", "Assets"),
     Route(<<"profile">>, FALSE, "ProtectedRoute", "Profile") >>

ProtectedPagesRest ==
  << Route(<<"deposit">>, FALSE, "ProtectedRoute", "Deposit"),
     Route(<<"withdraw">>, FALSE, "ProtectedRoute", "Withdraw"),
     Route(<<"bonus">>, FALSE, "ProtectedRoute", "Bonus"),
     Route(<<"trading">>, TRUE, "ProtectedRoute", "Trading"),
     Route(<<"about">>, FALSE, "ProtectedRoute", "AboutUs"),
     Route(<<"contact">>, FALSE, "ProtectedRoute", "Contact"),
     Route(<<"faqs">>, FALSE, "ProtectedRoute", "FAQs"),
     Route(<<"terms">>, FALSE, "ProtectedRoute", "TermsConditions"),
     Route(<<"privacy">>, FALSE, "ProtectedRoute", "PrivacyPolicy") >>

\* <Routes> of src/App.tsx
AppRoutes_App ==
  << Route(RootPath, FALSE, "none", "AuthPage") >>
  \o ProtectedPagesCommon \o ProtectedPagesRest

\* <Routes> of the App.tsx text carried at the end of services/api.ts
AppRoutes_api ==
  << Route(RootPath, FALSE, "PublicRoute", "AuthPage") >>
  \o ProtectedPagesCommon
  \o << Route(<<"investments">>, FALSE, "ProtectedRoute", "InvestmentsPage") >>
  \o ProtectedPagesRest

AppVersions == {"App.tsx", "services/api.ts"}

AppRoutes(version) == IF version = "App.tsx" THEN AppRoutes_App ELSE AppRoutes_api

\* whether a route's path pattern matches a location
Matches(route, p) ==
  \/ p = route.segments
  \/ /\ route.optional
     /\ Len(p) = Len(route.segments) + 1
     /\ SubSeq(p, 1, Len(route.segments)) = route.segments

\* the route a location selects; 0 stands for the catch-all route path="*"
MatchRoute(version, p) ==
  LET table == AppRoutes(version)
  IN IF \E i \in 1..Len(table) : Matches(table[i], p)
     THEN CHOOSE i \in 1..Len(table) : Matches(table[i], p)
     ELSE 0

\* the element of a route, evaluated in an authentication state
Element(route, auth, busy) ==
  CASE route.guard = "ProtectedRoute" -> ProtectedRoute(Page(route.page), auth, busy)
    [] route.guard = "PublicRoute" -> PublicRoute(Page(route.page), auth, busy)
    [] OTHER -> Page(route.page)

Render(version, p, auth, busy) ==
  LET i == MatchRoute(version, p)
  IN IF i = 0 THEN Navigate(RootPath)
     ELSE Element(AppRoutes(version)[i], auth, busy)

\* the locations a user visits
Paths ==
  { RootPath, <<"home">>, <<"wallet">>, <<"assets">>, <<"profile">>,
    <<"investments">>, <<"deposit">>, <<"withdraw">>, <<"bonus">>,
    <<"trading">>, <<"trading", "EURUSD">>, <<"about">>, <<"contact">>,
    <<"faqs">>, <<"terms">>, <<"privacy">>, <<"nowhere">>, <<"home", "extra">> }

\* the user opens or navigates to a location
GoTo ==
  \E p \in Paths :
    /\ path' = p
    /\ redirects' = 0
    /\ rendered' = Render(appVersion, p, isAuthenticated, loading)
    /\ UNCHANGED <<appVersion, loading, isAuthenticated>>
    /\ UNCHANGED <<apiVars, calls>>

\* the AuthProvider publishes a new authentication state
AuthStateChanges ==
  \E auth \in BOOLEAN, busy \in BOOLEAN :
    /\ <<auth, busy>> # <<isAuthenticated, loading>>
    /\ isAuthenticated' = auth
    /\ loading' = busy
    /\ redirects' = 0
    /\ rendered' = Render(appVersion, path, auth, busy)
    /\ UNCHANGED <<appVersion, path>>
    /\ UNCHANGED <<apiVars, calls>>

\* a rendered <Navigate to=... replace /> changes the location
FollowNavigate ==
  /\ rendered.kind = "navigate"
  /\ redirects < MaxRedirects
  /\ path' = rendered.to
  /\ redirects' = redirects + 1
  /\ rendered' = Render(appVersion, rendered.to, isAuthenticated, loading)
  /\ UNCHANGED <<appVersion, loading, isAuthenticated>>
  /\ UNCHANGED <<apiVars, calls>>

(***************************************************************************)
(* Specifications                                                          *)
(***************************************************************************)
InitApi ==
  /\ token \in {JNull} \cup {JStr(t) : t \in Tokens}
  /\ retryCount = 0
  /\ unauthorizedEvents = 0
  /\ call = IdleCall

InitRoutes ==
  /\ appVersion \in AppVersions
  /\ path \in Paths
  /\ loading = TRUE
  /\ isAuthenticated = FALSE
  /\ redirects = 0
  /\ rendered = Render(appVersion, path, isAuthenticated, loading)

\* the ApiService of services/api.ts, one call at a time
Init ==
  /\ InitApi
  /\ appVersion = "services/api.ts"
  /\ path = RootPath
  /\ loading = TRUE
  /\ isAuthenticated = FALSE
  /\ redirects = 0
  /\ rendered = Render(appVersion, path, isAuthenticated, loading)
  /\ calls = IdleSlots

Next ==
  \/ \E op \in RequestOps : Request(op)
  \/ UploadProfileImage
  \/ Logout
  \/ FetchFails
  \/ FetchResponds
  \/ DelayElapses
  \/ HandleError

Spec == Init /\ [][Next]_vars

\* the route tables under navigation and authentication changes
InitNav ==
  /\ InitRoutes
  /\ token = JNull
  /\ retryCount = 0
  /\ unauthorizedEvents = 0
  /\ call = IdleCall
  /\ calls = IdleSlots

NextNav ==
  \/ GoTo
  \/ AuthStateChanges
  \/ FollowNavigate

SpecNav == InitNav /\ [][NextNav]_vars

\* the ApiService of services/api.ts with up to MaxCalls calls in flight
InitConc == Init

NextConc ==
  \/ \E s \in Slots : ConcRequest(s)
  \/ \E s \in Slots : ConcFetchFails(s)
  \/ \E s \in Slots : ConcFetchResponds(s)
  \/ \E s \in Slots : ConcDelayElapses(s)

SpecConc == InitConc /\ [][NextConc]_vars

(***************************************************************************)
(* Claims                                                                  *)
(***************************************************************************)
StatusMessage(status) ==
  CASE status = 401 -> Msg401
    [] status = 403 -> Msg403
    [] status = 404 -> Msg404
    [] status = 429 -> Msg429
    [] OTHER -> <<>>

\* the step in which the call in progress receives a response
Answered == call'.answered = call.answered + 1

\* C1: every request composed by request() or uploadProfileImage() carries
\* 'Authorization: Bearer t' exactly when a non-empty token t was in storage
\* when it was composed, and no Authorization header otherwise.
C1_AuthorizationIffToken ==
  call.pc = "fetching" =>
    call.headers.Authorization =
      IF call.tokSeen.t = "str" /\ call.tokSeen.s # <<>>
      THEN <<"Bearer">> \o call.tokSeen.s
      ELSE NoHeader

\* C2: a 401 response removes the stored token, dispatches exactly one
\* 'unauthorized' event and rejects the call with the authentication error;
\* and isAuthenticated() turns from false to true only when a login or
\* register resolves with an access_token.
C2_Unauthorized401 ==
  [][ /\ (Answered /\ call'.lastStatus = 401) =>
           /\ token' = JNull
           /\ ~isAuthenticated_api(token')
           /\ unauthorizedEvents' = unauthorizedEvents + 1
           /\ call'.pc = "done"
           /\ call'.outcome = "rejected"
           /\ call'.error = NewError(Msg401)
      /\ (~isAuthenticated_api(token) /\ isAuthenticated_api(token')) =>
           /\ call.op \in AuthOps
           /\ Answered
           /\ call'.outcome = "resolved"
           /\ Truthy(Prop(call'.data, "access_token"))
    ]_vars

C2_Witness ==
  /\ call.pc = "done"
  /\ call.lastStatus = 401
  /\ call.tokBefore # JNull
  /\ token = JNull
  /\ unauthorizedEvents = 1

\* the locations of the protected routes of a route table
ProtectedLocations(version) ==
  { <<"home">>, <<"wallet">>, <<"assets">>, <<"profile">>, <<"deposit">>,
    <<"withdraw">>, <<"bonus">>, <<"trading">>, <<"trading", "EURUSD">>,
    <<"about">>, <<"contact">>, <<"faqs">>, <<"terms">>, <<"privacy">> }
  \cup (IF version = "services/api.ts" THEN {<<"investments">>} ELSE {})

\* C3: at a protected location a page is rendered only when loading is false
\* and isAuthenticated is true; with loading false and isAuthenticated false
\* the route redirects to '/'.
C3_ProtectedContentNeedsAuth ==
  path \in ProtectedLocations(appVersion) =>
    /\ rendered.kind = "page" => (~loading /\ isAuthenticated)
    /\ (~loading /\ ~isAuthenticated) => rendered = Navigate(RootPath)

C3_Witness ==
  /\ path = <<"wallet">>
  /\ ~loading
  /\ isAuthenticated
  /\ rendered = Page("Wallet")

\* the guard of the route the current location selects
GuardAtPath ==
  LET i == MatchRoute(appVersion, path)
  IN IF i = 0 THEN "none" ELSE AppRoutes(appVersion)[i].guard

\* C4: while loading is true, a route wrapped in ProtectedRoute or PublicRoute
\* renders the loading spinner, neither its children nor a redirect, whatever
\* isAuthenticated is.
C4_SpinnerWhileLoading ==
  (loading /\ GuardAtPath \in {"ProtectedRoute", "PublicRoute"}) =>
    rendered = Spinner

C4_Witness ==
  /\ loading
  /\ isAuthenticated
  /\ GuardAtPath = "PublicRoute"
  /\ rendered = Spinner

\* C5: in every route table, at '/' with loading false an authenticated user
\* is redirected to '/home' and not shown AuthPage, and an unauthenticated
\* user is shown AuthPage.
C5_AuthPageOnlyWhenUnauthenticated ==
  (path = RootPath /\ ~loading) =>
    rendered = IF isAuthenticated THEN Navigate(HomePath) ELSE Page("AuthPage")

\* C6: a 401, 403, 404 or 429 response rejects with the message of its
\* status whatever the body is; for 403, 404 and 429 the stored token is
\* left unchanged and no 'unauthorized' event is dispatched.
C6_StatusMessages ==
  [][ (Answered /\ call'.lastStatus \in {401, 403, 404, 429}) =>
        /\ call'.outcome = "rejected"
        /\ call'.error = NewError(StatusMessage(call'.lastStatus))
        /\ call'.lastStatus # 401 =>
             (token' = token /\ unauthorizedEvents' = unauthorizedEvents)
    ]_vars

C6_Witness ==
  /\ call.pc = "done"
  /\ call.lastStatus = 403
  /\ call.error.message = Msg403
  /\ token # JNull
  /\ token = call.tokBefore
  /\ unauthorizedEvents = 0

\* C7: a response that is not ok and whose status is none of 401, 403, 404
\* and 429 never resolves the call: an error is thrown whose status field is
\* the status of the response.
C7_ErrorResponseThrowsWithStatus ==
  ( /\ call.pc \in {"delaying", "done"}
    /\ call.lastStatus # NoStatus
    /\ ~(call.lastStatus >= 200 /\ call.lastStatus <= 299)
    /\ call.lastStatus \notin {401, 403, 404, 429} ) =>
      /\ call.outcome # "resolved"
      /\ call.data = Undefined
      /\ call.error.name = "Error"
      /\ call.error.status = call.lastStatus

C7_Witness ==
  /\ call.pc = "done"
  /\ call.lastStatus = 500
  /\ call.outcome = "rejected"
  /\ call.error.status = 500
  /\ call.error.message = <<"null">>

\* C8: request() sends a request again only when fetch failed without a
\* response: a call that has received a response is not waiting to retry and
\* has no further request with the network.
C8_RetryOnlyWithoutResponse ==
  call.pc \in {"delaying", "fetching"} => call.answered = 0

\* C9: when login or register resolves with a non-empty access_token, the
\* stored token is that access_token; when it rejects, the stored token is
\* the one stored before the call or absent.
C9_TokenStoredOnlyOnSuccess ==
  (call.op \in AuthOps /\ call.pc = "done") =>
    /\ (call.outcome = "resolved" /\ Truthy(Prop(call.data, "access_token"))) =>
         token = Prop(call.data, "access_token")
    /\ call.outcome = "rejected" => token \in {call.tokBefore, JNull}

C9_Witness ==
  /\ call.op = "register"
  /\ call.pc = "done"
  /\ call.outcome = "resolved"
  /\ token = JStr(<<"t2">>)
  /\ call.tokBefore = JStr(<<"t1">>)

\* C10: after logout() the stored token is gone: isAuthenticated() is false
\* and a request composed next carries no Authorization header.
C10_LogoutRemovesToken ==
  (call.op = "logout" /\ call.pc = "done") =>
    /\ ~isAuthenticated_api(token)
    /\ getAuthHeaders(token).Authorization = NoHeader

\* C11: whenever no call to request() is in flight retryCount is 0, so a
\* call that meets a persistently failing network makes maxRetries + 1 fetch
\* attempts before it rejects.
C11_RetryCountResetBetweenCalls ==
  call.pc \in {"idle", "done"} =>
    /\ retryCount = 0
    /\ (call.op \in RequestOps /\ call.outcome = "rejected" /\ call.answered = 0) =>
         call.fetches = maxRetries + 1

\* C12: the wait before a retry is at least twice the wait before the retry
\* that preceded it in the same call.
C12_BackoffDoubles ==
  (call.pc = "delaying" /\ call.prevDelayMs > 0) =>
    call.delayMs >= 2 * call.prevDelayMs

\* the call holds the error handleErrorResponse threw for its last response
ErrorResponseHandled ==
  /\ call.pc \in {"delaying", "done"}
  /\ call.lastStatus # NoStatus
  /\ ~(call.lastStatus >= 200 /\ call.lastStatus <= 299)
  /\ call.lastStatus \notin {401, 403, 404, 429}

\* the entries of a JSON object whose key is key and whose value is truthy
TruthyField(v, key) ==
  IF v.t = "obj"
  THEN {i \in 1..Len(v.entries) : v.entries[i][1] = key /\ Truthy(v.entries[i][2])}
  ELSE {}

\* the number of occurrences of a word in a text
Occurrences(text, word) == Cardinality({i \in 1..Len(text) : text[i] = word})

\* C13: handleErrorResponse takes the message from a truthy 'detail', else a
\* truthy 'message', else a truthy 'error', else joins a JSON array with
\* ', ', else for an object with at least one key says 'Validation failed'
\* with one 'key: value' entry per key joined by '; ' in error.detail; an
\* empty body gives 'HTTP error! status: <status>' and a body that is not
\* JSON gives the body text.
C13_ErrorMessagePriority ==
  ErrorResponseHandled =>
    LET body == call.lastBody
        v == body.val
        message == call.error.message
        hasDetail == TruthyField(v, "detail") # {}
        hasMessage == TruthyField(v, "message") # {}
        hasError == TruthyField(v, "error") # {}
    IN /\ (body.kind = "text" /\ body.text = <<>>) =>
            message = <<"HTTP", "error!", "status:", ToString(call.lastStatus)>>
       /\ (body.kind = "text" /\ body.text # <<>>) => message = body.text
       /\ (body.kind = "json" /\ v.t = "obj") =>
            /\ hasDetail =>
                 \E i \in TruthyField(v, "detail") : message = v.entries[i][2].s
            /\ (~hasDetail /\ hasMessage) =>
                 \E i \in TruthyField(v, "message") : message = v.entries[i][2].s
            /\ (~hasDetail /\ ~hasMessage /\ hasError) =>
                 \E i \in TruthyField(v, "error") : message = v.entries[i][2].s
            /\ (~hasDetail /\ ~hasMessage /\ ~hasError /\ Len(v.entries) > 0) =>
                 /\ message = <<"Validation", "failed">>
                 /\ \A i \in 1..Len(v.entries) :
                      \E j \in 1..(Len(call.error.detail) - 1) :
                        /\ call.error.detail[j] = v.entries[i][1]
                        /\ call.error.detail[j + 1] = ":"
                 /\ Occurrences(call.error.detail, ";") = Len(v.entries) - 1
       /\ (body.kind = "json" /\ v.t = "arr") =>
            /\ Occurrences(message, ",") = Len(v.items) - 1
            /\ \A i \in 1..Len(v.items) :
                 \A k \in 1..Len(v.items[i].s) : includes(message, v.items[i].s[k])

C13_Witness ==
  /\ ErrorResponseHandled
  /\ call.lastBody.kind = "json"
  /\ TruthyField(call.lastBody.val, "detail") # {}
  /\ TruthyField(call.lastBody.val, "message") # {}
  /\ call.error.message = <<"Invalid", "credentials">>

\* ApiErrorHandler.handle was called with the value in call.handled
Reported == call.reported # <<>>

HandledIsError == "message" \in DOMAIN call.handled

\* C14: ApiErrorHandler.handle reports an Error by the first rule that
\* matches its message, in the order network ('Network' or 'fetch'),
\* authentication ('Authentication' or '401'), server ('500'), else the
\* message itself; a value that is no Error gives the unexpected-error text;
\* the error of a 401 response is reported as the expired session.
C14_ErrorClassification ==
  Reported =>
    LET m == IF HandledIsError THEN call.handled.message ELSE <<>>
        network == includes(m, "Network") \/ includes(m, "fetch")
        authentication == includes(m, "Authentication") \/ includes(m, "401")
        server == includes(m, "500")
    IN /\ ~HandledIsError =>
            call.reported = <<"An", "unexpected", "error", "occurred.",
                              "Please", "try", "again.">>
       /\ (HandledIsError /\ network) =>
            call.reported = <<"Network", "error.", "Please", "check", "your",
                              "internet", "connection.">>
       /\ (HandledIsError /\ ~network /\ authentication) =>
            call.reported = <<"Your", "session", "has", "expired.", "Please",
                              "login", "again.">>
       /\ (HandledIsError /\ ~network /\ ~authentication /\ server) =>
            call.reported = <<"Server", "error.", "Please", "try", "again",
                              "later.">>
       /\ (HandledIsError /\ ~network /\ ~authentication /\ ~server) =>
            call.reported = m
       /\ (HandledIsError /\ call.lastStatus = 401) =>
            call.reported = <<"Your", "session", "has", "expired.", "Please",
                              "login", "again.">>

C14_Witness ==
  /\ Reported
  /\ call.lastStatus = 401
  /\ call.handled = call.error
  /\ call.reported = MsgSessionExpired

\* the last fetch of the call produced an ok response
OkResponseHandled ==
  call.lastStatus >= 200 /\ call.lastStatus <= 299

\* C15: an ok response resolves with its parsed JSON body; a 204 response
\* whose body cannot be parsed resolves with an empty object; any other ok
\* response whose body is not valid JSON rejects with 'Invalid JSON response
\* from server', and the request is not sent again.
C15_OkResponseBody ==
  OkResponseHandled =>
    /\ call.pc = "done"
    /\ call.op \notin AuthOps =>
         /\ call.lastBody.kind = "json" =>
              (call.outcome = "resolved" /\ call.data = call.lastBody.val)
         /\ (call.lastBody.kind # "json" /\ call.lastStatus = 204) =>
              (call.outcome = "resolved" /\ call.data = JObj(<<>>))
    /\ (call.lastBody.kind # "json" /\ call.lastStatus # 204) =>
         /\ call.outcome = "rejected"
         /\ call.error = NewError(<<"Invalid", "JSON", "response", "from", "server">>)

C15_Witness ==
  /\ OkResponseHandled
  /\ call.lastStatus = 204
  /\ call.lastBody = TextBody(<<>>)
  /\ call.outcome = "resolved"
  /\ call.data = JObj(<<>>)

\* the methods of the claim that move money, each one POST through request()
MoneyOps == {"depositFunds", "withdrawFunds", "buyInvestment"}

\* C16: one call to depositFunds, withdrawFunds or buyInvestment sends at
\* most one POST to the backend, also when the network fails after the
\* request was sent.
C16_AtMostOnePost ==
  call.op \in MoneyOps => call.fetches <= 1

\* the number of calls that have been issued and have not settled
InFlight == Cardinality({s \in Slots : calls[s].pc \in {"fetching", "delaying"}})

\* C17: under every interleaving of concurrently issued requests on the
\* shared service, 0 <= retryCount <= maxRetries.
C17_RetryCountInRange ==
  retryCount >= 0 /\ retryCount <= maxRetries

C17_Witness ==
  /\ InFlight >= 2
  /\ retryCount = maxRetries
  /\ \E s \in Slots : calls[s].pc = "delaying"
  /\ \E s \in Slots : calls[s].pc = "fetching"

\* C18: navigation settles. While loading is false and the authentication
\* state stays as it is, following the redirects of the route table from any
\* location, unknown ones included, renders a page after at most two
\* redirects; '/' and '/home' do not redirect to each other for ever.
C18_NavigationSettles ==
  ~loading =>
    /\ redirects <= 2
    /\ redirects = 2 => rendered.kind = "page"

C18_Witness ==
  /\ ~loading
  /\ redirects = 2
  /\ path = HomePath
  /\ rendered = Page("Home")

====
